---- MODULE Spec2Model ----
(***************************************************************************)
(* A model of the csv_ledger_lib Ledger (lib/src/ledger.rs): the client    *)
(* accounts, the table of undisputed transactions, and the five events     *)
(* that consume_csv dispatches to insert_transaction, hold, resolve and    *)
(* chageback.  Amounts are the scaled i64 values of the code; the bounds   *)
(* below keep every balance far inside the i64 range, so no addition of    *)
(* the model overflows.                                                    *)
(***************************************************************************)
EXTENDS Integers, FiniteSets, Sequences, TLC

\* ------------------------------------------------------------------ bounds
\* number of events applied in a run
MaxEvents == 6

\* lengths of the fractions and of the line tails the decoder is given,
\* and largest magnitude of the amounts the reporter is given
MaxFracLen == 5
MaxTailLen == 3
MaxScaled == 10500

\* number of comma-separated fields of the header lines the decoder is given
MaxFields == 5

\* number of lines after the header in the files consume_csv is given
MaxLines == 3

\* ------------------------------------------------------------------ inputs
\* The ids are compared for equality only and every operation names one
\* client and one tx, so two ids of each kind give every case of "this one"
\* and "another one".  Deposits and withdrawals carry different magnitudes,
\* so that an amount taken from the wrong entry shows in the balances.
ClientIds == {1, 2}
TxIds == {1, 2}
DepositAmounts == {2}
WithdrawalAmounts == {1}

\* ------------------------------------------------------------------- state
VARIABLES
    clients,          \* Ledger.clients: client id -> ClientData
    transactions,     \* Ledger.transactions: tx id -> signed amount
    last,             \* the event consume_csv dispatched last
    prevClients,      \* Ledger.clients before that event
    prevTransactions, \* Ledger.transactions before that event
    seen,             \* tx ids carried by the deposits/withdrawals so far
    repeated,         \* tx ids carried by two or more deposits/withdrawals
    discarded,        \* tx ids of deposits/withdrawals dropped by a lock
    accepted,         \* tx id -> client and signed amount of the deposit or
                      \* withdrawal that insert_transaction accepted last
    gone,             \* tx ids a resolve or chargeback took from a held table
    credited,         \* client id -> sum of the signed amounts of the
                      \* deposits/withdrawals accepted for the account
    charged,          \* client id -> sum of the amounts chargebacks took
                      \* from the account's held table
    opened,           \* client id -> the dispute that took effect on the
                      \* account as the last event naming it, with the
                      \* account before it, and whether the next event
                      \* naming the account was the resolve of the same tx
    steps,            \* number of events applied
    program,          \* the ledger that runs: "lib" (src/lib), or the
                      \* command-line crate's "Ledger" or "Bank"
    argument,         \* the argument of the decoder or reporter function
    call,             \* the function applied to it, "none" before the call
    output,           \* what the function returned
    panics,           \* the build panics on integer overflow (debug) or
                      \* wraps (release)
    lines,            \* the csv file consume_csv reads, as its lines
    index,            \* number of lines consume_csv has read
    returned,         \* what consume_csv returned, "running" until then
    before            \* the ledger consume_csv was called on

vars == <<clients, transactions, last, prevClients, prevTransactions,
          seen, repeated, discarded, accepted, gone, credited, charged, opened,
          steps, program,
          argument, call, output, panics, lines, index, returned, before>>

\* the state of a call of consume_csv
csv == <<lines, index, returned, before>>

\* ----------------------------------------------------------- map helpers
\* BTreeMap / HashMap with no entry
EmptyMap == [k \in {} |-> 0]

\* BTreeMap::insert / HashMap::insert: the new value replaces an old one
MapInsert(m, k, v) == [x \in (DOMAIN m) \cup {k} |-> IF x = k THEN v ELSE m[x]]

\* BTreeMap::remove
MapRemove(m, k) == [x \in (DOMAIN m) \ {k} |-> m[x]]

\* self.held.values().sum()
RECURSIVE SumValues(_)
SumValues(m) ==
    IF DOMAIN m = {} THEN 0
    ELSE LET k == CHOOSE x \in DOMAIN m : TRUE
         IN  m[k] + SumValues(MapRemove(m, k))

\* ------------------------------------------------------------------ text
\* A text (&str) is a sequence of one-character strings.
DigitSeq == <<"0", "1", "2", "3", "4", "5", "6", "7", "8", "9">>
DigitChars == {DigitSeq[i] : i \in 1..10}

\* char::to_digit(10) of a digit
DigitValue(ch) == (CHOOSE i \in 1..10 : DigitSeq[i] = ch) - 1

\* the characters multispace0 skips
SpaceChars == {" ", "\t", "\n", "\r"}

Take(s, n) == SubSeq(s, 1, n)
Drop(s, n) == SubSeq(s, n + 1, Len(s))

\* length of the longest prefix of s made of characters of set
RECURSIVE LeadLen(_, _)
LeadLen(s, set) ==
    IF s = <<>> \/ Head(s) \notin set THEN 0 ELSE 1 + LeadLen(Tail(s), set)

\* nom multispace0: the input after its leading whitespace
multispace0(s) == Drop(s, LeadLen(s, SpaceChars))

Reverse(t) == [i \in 1..Len(t) |-> t[Len(t) + 1 - i]]

\* str::trim: a text without the whitespace around it
Trim(t) == Reverse(multispace0(Reverse(multispace0(t))))

\* nom tag(t): s starts with t
tag(t, s) == Len(s) >= Len(t) /\ Take(s, Len(t)) = t

\* the value of a digit string, by Horner's rule
RECURSIVE DigitsValue(_)
DigitsValue(d) ==
    IF d = <<>> THEN 0
    ELSE 10 * DigitsValue(Take(d, Len(d) - 1)) + DigitValue(d[Len(d)])

\* a digit string without its leading zeros
StripZeros(d) == Drop(d, LeadLen(d, {"0"}))

\* a <= b for digit strings of the same length
RECURSIVE LexLeq(_, _)
LexLeq(a, b) ==
    \/ a = <<>>
    \/ DigitValue(Head(a)) < DigitValue(Head(b))
    \/ Head(a) = Head(b) /\ LexLeq(Tail(a), Tail(b))

\* the number written by the digit string d is at most the one written by
\* max: the range test of an integer type, made on the text because i64 and
\* u32 values exceed the integers of the model checker
FitsIn(d, max) ==
    LET n == StripZeros(d)
    IN  \/ Len(n) < Len(max)
        \/ Len(n) = Len(max) /\ LexLeq(n, max)

\* the number written by d as an integer of the model checker; a number of
\* more than nine digits is carried by its text only and has the value -1
ModelValue(d) ==
    IF Len(StripZeros(d)) <= 9 THEN DigitsValue(StripZeros(d)) ELSE -1

\* u16::MAX, u32::MAX and i64::MAX as texts
U16_MAX == <<"6", "5", "5", "3", "5">>
U32_MAX == <<"4", "2", "9", "4", "9", "6", "7", "2", "9", "5">>
I64_MAX == <<"9", "2", "2", "3", "3", "7", "2", "0", "3", "6",
             "8", "5", "4", "7", "7", "5", "8", "0", "7">>

\* the decimal digits of n >= 0 (`{}` of a non-negative integer)
RECURSIVE Digits(_)
Digits(n) ==
    IF n < 10 THEN <<DigitSeq[n + 1]>>
    ELSE Digits(n \div 10) \o <<DigitSeq[(n % 10) + 1]>>

\* n zeros
Zeros(n) == [i \in 1..n |-> "0"]

\* ---------------------------------------------------------------- parser
\* IResult: Ok((rest, value)), Err(Error), Err(Failure); "Abort" is the
\* panic of an overflowing `*` or `+` in a build with overflow checks.
\* `digits` is the text the value was read from, `wrapped` tells that the
\* value is the two's complement wrap of an overflowing result.
ParseOk(rest, value, digits) ==
    [status |-> "Ok", rest |-> rest, value |-> value, digits |-> digits,
     wrapped |-> FALSE]

ParseErr(status) ==
    [status |-> status, rest |-> <<>>, value |-> 0, digits |-> <<>>,
     wrapped |-> FALSE]

\* Option<usize>
None == <<>>
Some(x) == <<x>>

\* nom character::complete::u16 / u32: one or more digits, Error when there
\* is none or when the value exceeds max
uint_unchecked(input, max) ==
    LET n == LeadLen(input, DigitChars)
        num == Take(input, n)
    IN  IF n = 0 THEN ParseErr("Error")
        ELSE ParseOk(Drop(input, n), ModelValue(num), num)

uint(input, max) ==
    LET n == LeadLen(input, DigitChars)
        num == Take(input, n)
    IN  IF n = 0 \/ ~FitsIn(num, max) THEN ParseErr("Error")
        ELSE ParseOk(Drop(input, n), ModelValue(num), num)

double_lenient(input, max) ==
    LET lead == LeadLen(input, DigitChars)
        n == IF max = None THEN lead
             ELSE IF lead < max[1] THEN lead ELSE max[1]
        num == Take(input, n)
    IN  IF ~FitsIn(num, I64_MAX) THEN ParseErr("Failure")
        ELSE ParseOk(Drop(input, n), ModelValue(num), num)

double(input, max) ==
    LET lead == LeadLen(input, DigitChars)
        n == IF max = None THEN lead
             ELSE IF lead < max[1] THEN lead ELSE max[1]
        num == Take(input, n)
    IN  IF max # None /\ n = 0 THEN ParseErr("Error")
        ELSE IF num = <<>> \/ ~FitsIn(num, I64_MAX) THEN ParseErr("Failure")
        ELSE ParseOk(Drop(input, n), ModelValue(num), num)

\* post_dp.checked_ilog10().unwrap_or(0) for 0 <= post_dp <= 9999
ilog10_or_0(post_dp) ==
    IF post_dp >= 1000 THEN 3
    ELSE IF post_dp >= 100 THEN 2
    ELSE IF post_dp >= 10 THEN 1
    ELSE 0

Pow10(k) == CASE k = 0 -> 1 [] k = 1 -> 10 [] k = 2 -> 100 [] k = 3 -> 1000
              [] k = 4 -> 10000

four_dp(input, overflow_checks) ==
    LET pre == double(input, None)
    IN  IF pre.status # "Ok" THEN pre
        ELSE IF tag(<<".">>, pre.rest)
        THEN LET post == double(Drop(pre.rest, 1), Some(4))
                 scaled == post.value * Pow10(3 - ilog10_or_0(post.value))
                 sum == StripZeros(pre.digits)
                            \o Zeros(4 - Len(Digits(scaled)))
                            \o Digits(scaled)
             IN  IF post.status # "Ok" THEN post
                 ELSE IF FitsIn(sum, I64_MAX)
                 THEN ParseOk(post.rest,
                              IF Len(StripZeros(sum)) <= 9
                              THEN pre.value * 10000 + scaled ELSE -1,
                              sum)
                 ELSE IF overflow_checks THEN ParseErr("Abort")
                 ELSE [ParseOk(post.rest, 0, sum) EXCEPT !.wrapped = TRUE]
        ELSE LET sum == StripZeros(pre.digits) \o Zeros(4)
             IN  IF FitsIn(sum, I64_MAX)
                 THEN ParseOk(pre.rest,
                              IF Len(StripZeros(sum)) <= 9
                              THEN pre.value * 10000 ELSE -1,
                              sum)
                 ELSE IF overflow_checks THEN ParseErr("Abort")
                 ELSE [ParseOk(pre.rest, 0, sum) EXCEPT !.wrapped = TRUE]

\* terminated(ws(inner), tag(",")) applied to input, where inner(text) is
\* the result of the inner parser: the result of inner with the rest after
\* the comma
ws_comma(r) ==
    IF r.status # "Ok" THEN r
    ELSE LET rest == multispace0(r.rest)
         IN  IF tag(<<",">>, rest) THEN [r EXCEPT !.rest = Drop(rest, 1)]
             ELSE ParseErr("Error")

\* the keywords in the order of the alt(...) of parse_transaction
Keywords ==
    << <<"d", "e", "p", "o", "s", "i", "t">>,
       <<"w", "i", "t", "h", "d", "r", "a", "w", "a", "l">>,
       <<"d", "i", "s", "p", "u", "t", "e">>,
       <<"r", "e", "s", "o", "l", "v", "e">>,
       <<"c", "h", "a", "r", "g", "e", "b", "a", "c", "k">> >>

KeywordNames == <<"deposit", "withdrawal", "dispute", "resolve", "chargeback">>

\* alt((tag("deposit"), ...)): the index of the first keyword the input
\* starts with, 0 when there is none
alt_keyword(input) ==
    IF \E i \in 1..5 : tag(Keywords[i], input)
    THEN CHOOSE i \in 1..5 :
            tag(Keywords[i], input) /\ \A j \in 1..(i - 1) : ~tag(Keywords[j], input)
    ELSE 0

\* Result<Transaction, nom::Err>; client and tx are the results of the id
\* parsers, and `ids` keeps the two ids as texts without leading zeros,
\* since a u32 can exceed the integers of the model checker
TransactionOk(type, client, tx, amount) ==
    [status |-> "Ok", type |-> type, client |-> client.value,
     tx |-> tx.value, amount |-> amount, wrapped |-> FALSE,
     ids |-> <<StripZeros(client.digits), StripZeros(tx.digits)>>]

TransactionErr(status) ==
    [status |-> status, type |-> "none", client |-> 0, tx |-> 0, amount |-> 0,
     wrapped |-> FALSE, ids |-> <<>>]

parse_transaction(input, overflow_checks) ==
    LET start == multispace0(input)
        k == alt_keyword(start)
        key == ws_comma(ParseOk(Drop(start, Len(Keywords[k])), 0, <<>>))
        client == ws_comma(uint(multispace0(key.rest), U16_MAX))
        tx == ws_comma(uint(multispace0(client.rest), U32_MAX))
        parsed == four_dp(multispace0(tx.rest), overflow_checks)
        \* delimited(multispace0, four_dp, multispace0)(input).ok()
        amount == IF parsed.status = "Ok"
                  THEN Some([parsed EXCEPT !.rest = multispace0(@)])
                  ELSE None
        name == KeywordNames[k]
    IN  IF k = 0 THEN TransactionErr("Error")
        ELSE IF key.status # "Ok" THEN TransactionErr(key.status)
        ELSE IF client.status # "Ok" THEN TransactionErr(client.status)
        ELSE IF tx.status # "Ok" THEN TransactionErr(tx.status)
        ELSE IF parsed.status = "Abort" THEN TransactionErr("Abort")
        ELSE IF amount # None /\ amount[1].rest # <<>>
        THEN TransactionErr("Failure")
        ELSE IF name \in {"deposit", "withdrawal"} /\ amount # None
        THEN [TransactionOk(name, client, tx, amount[1].value)
                 EXCEPT !.wrapped = amount[1].wrapped]
        ELSE IF name \in {"dispute", "resolve", "chargeback"} /\ amount = None
        THEN TransactionOk(name, client, tx, 0)
        ELSE TransactionErr("Failure")

\* the tokens of the header in the order parse_header reads them
HeaderTokens ==
    << <<"t", "y", "p", "e">>,
       <<"c", "l", "i", "e", "n", "t">>,
       <<"t", "x">>,
       <<"a", "m", "o", "u", "n", "t">> >>

\* ws(tag(t)): t with any whitespace before and after it
ws_tag(t, input) ==
    LET start == multispace0(input)
    IN  IF tag(t, start) THEN ParseOk(multispace0(Drop(start, Len(t))), 0, <<>>)
        ELSE ParseErr("Error")

\* Result<(), nom::Err> of parse_header
parse_header_no_end_check(input) ==
    LET type == ws_comma(ws_tag(HeaderTokens[1], input))
        client == ws_comma(ws_tag(HeaderTokens[2], type.rest))
        tx == ws_comma(ws_tag(HeaderTokens[3], client.rest))
        amount == ws_tag(HeaderTokens[4], tx.rest)
    IN  IF type.status # "Ok" THEN [status |-> type.status]
        ELSE IF client.status # "Ok" THEN [status |-> client.status]
        ELSE IF tx.status # "Ok" THEN [status |-> tx.status]
        ELSE IF amount.status # "Ok" THEN [status |-> amount.status]
        ELSE [status |-> "Ok"]

parse_header(input) ==
    LET type == ws_comma(ws_tag(HeaderTokens[1], input))
        client == ws_comma(ws_tag(HeaderTokens[2], type.rest))
        tx == ws_comma(ws_tag(HeaderTokens[3], client.rest))
        amount == ws_tag(HeaderTokens[4], tx.rest)
    IN  IF type.status # "Ok" THEN [status |-> type.status]
        ELSE IF client.status # "Ok" THEN [status |-> client.status]
        ELSE IF tx.status # "Ok" THEN [status |-> tx.status]
        ELSE IF amount.status # "Ok" THEN [status |-> amount.status]
        ELSE IF amount.rest # <<>> THEN [status |-> "Failure"]
        ELSE [status |-> "Ok"]

\* --------------------------------------------------------------- reporter
\* `/` and `%` of Rust: the quotient is truncated towards zero and the
\* remainder has the sign of the dividend
RustDiv(a, b) == IF a >= 0 THEN a \div b ELSE -((-a) \div b)
RustRem(a, b) == a - b * RustDiv(a, b)

\* format!("{}", n)
Display(n) == IF n < 0 THEN <<"-">> \o Digits(-n) ELSE Digits(n)

\* format!("{:04}", n): zeros after the sign up to a width of four
Display04(n) ==
    IF n < 0
    THEN LET d == Digits(-n)
         IN  <<"-">> \o Zeros(IF Len(d) < 3 THEN 3 - Len(d) ELSE 0) \o d
    ELSE LET d == Digits(n)
         IN  Zeros(IF Len(d) < 4 THEN 4 - Len(d) ELSE 0) \o d

dp_string(amount) ==
    Display(RustDiv(amount, 10000)) \o <<".">> \o Display04(RustRem(amount, 10000))

\* ------------------------------------------------------------ ClientData
ClientData_new(amount) ==
    [held |-> EmptyMap, available |-> amount, total |-> amount, locked |-> FALSE]

\* format!("{}", b) of a bool
DisplayBool(b) == IF b THEN <<"t", "r", "u", "e">> ELSE <<"f", "a", "l", "s", "e">>

\* impl Display for ClientData
ClientData_fmt(self) ==
    dp_string(self.available) \o <<",", " ">>
        \o dp_string(SumValues(self.held)) \o <<",", " ">>
        \o dp_string(self.total) \o <<",", " ">>
        \o DisplayBool(self.locked)

\* Ledger::default()
Ledger_default == [clients |-> EmptyMap, transactions |-> EmptyMap]

\* ------------------------------------------------------ Ledger operations
\* Each operation maps the ledger `self` to the ledger it leaves behind.

\* insert_transaction over a table that keeps the newest entry only
insert_transaction_evict(self, client_id, transaction_id, amount) ==
    IF client_id \in DOMAIN self.clients
    THEN LET client == self.clients[client_id]
         IN  IF ~client.locked
             THEN [clients |->
                      [self.clients EXCEPT ![client_id] =
                          [client EXCEPT !.total = @ + amount,
                                         !.available = @ + amount]],
                   transactions |-> MapInsert(EmptyMap, transaction_id, amount)]
             ELSE self
    ELSE [clients |-> MapInsert(self.clients, client_id, ClientData_new(amount)),
          transactions |-> MapInsert(EmptyMap, transaction_id, amount)]

\* insert_transaction with the CLI crate's condition (`Some(client) &&
\* !client.locked`, else insert): a locked account is replaced by a new one
insert_transaction_let_chain(self, client_id, transaction_id, amount) ==
    IF client_id \in DOMAIN self.clients /\ ~self.clients[client_id].locked
    THEN [clients |->
             [self.clients EXCEPT ![client_id] =
                 [@ EXCEPT !.total = @ + amount, !.available = @ + amount]],
          transactions |-> MapInsert(self.transactions, transaction_id, amount)]
    ELSE [clients |-> MapInsert(self.clients, client_id, ClientData_new(amount)),
          transactions |-> MapInsert(self.transactions, transaction_id, amount)]

\* insert_transaction with the insert moved out of the `!client.locked` test
insert_transaction_locked_insert(self, client_id, transaction_id, amount) ==
    IF client_id \in DOMAIN self.clients
    THEN LET client == self.clients[client_id]
         IN  [clients |->
                 IF ~client.locked
                 THEN [self.clients EXCEPT ![client_id] =
                          [client EXCEPT !.total = @ + amount,
                                         !.available = @ + amount]]
                 ELSE self.clients,
              transactions |->
                 MapInsert(self.transactions, transaction_id, amount)]
    ELSE [clients |-> MapInsert(self.clients, client_id, ClientData_new(amount)),
          transactions |-> MapInsert(self.transactions, transaction_id, amount)]

\* insert_transaction that refuses a withdrawal exceeding the available funds
insert_transaction_checked(self, client_id, transaction_id, amount) ==
    IF client_id \in DOMAIN self.clients
    THEN LET client == self.clients[client_id]
         IN  IF ~client.locked /\ client.available + amount >= 0
             THEN [clients |->
                      [self.clients EXCEPT ![client_id] =
                          [client EXCEPT !.total = @ + amount,
                                         !.available = @ + amount]],
                   transactions |->
                      MapInsert(self.transactions, transaction_id, amount)]
             ELSE self
    ELSE [clients |-> MapInsert(self.clients, client_id, ClientData_new(amount)),
          transactions |-> MapInsert(self.transactions, transaction_id, amount)]

insert_transaction(self, client_id, transaction_id, amount) ==
    IF client_id \in DOMAIN self.clients
    THEN LET client == self.clients[client_id]
         IN  IF ~client.locked
             THEN [clients |->
                      [self.clients EXCEPT ![client_id] =
                          [client EXCEPT !.total = @ + amount,
                                         !.available = @ + amount]],
                   transactions |->
                      MapInsert(self.transactions, transaction_id, amount)]
             ELSE self
    ELSE [clients |-> MapInsert(self.clients, client_id, ClientData_new(amount)),
          transactions |-> MapInsert(self.transactions, transaction_id, amount)]

\* hold that forgets `client.available -= amount`
hold_no_debit(self, client_id, transaction_id) ==
    IF client_id \in DOMAIN self.clients
    THEN IF transaction_id \in DOMAIN self.transactions
         THEN [clients |->
                  [self.clients EXCEPT ![client_id].held =
                      MapInsert(@, transaction_id,
                                self.transactions[transaction_id])],
               transactions |-> MapRemove(self.transactions, transaction_id)]
         ELSE self
    ELSE self

\* hold that also takes the amount out of `total`
hold_total(self, client_id, transaction_id) ==
    IF client_id \in DOMAIN self.clients
    THEN IF transaction_id \in DOMAIN self.transactions
         THEN LET client == self.clients[client_id]
                  amount == self.transactions[transaction_id]
              IN  [clients |->
                      [self.clients EXCEPT ![client_id] =
                          [client EXCEPT
                              !.available = @ - amount,
                              !.total = @ - amount,
                              !.held = MapInsert(@, transaction_id, amount)]],
                   transactions |-> MapRemove(self.transactions, transaction_id)]
         ELSE self
    ELSE self

\* hold that reads the table with `get` instead of `remove`
hold_get(self, client_id, transaction_id) ==
    IF client_id \in DOMAIN self.clients
    THEN IF transaction_id \in DOMAIN self.transactions
         THEN LET client == self.clients[client_id]
                  amount == self.transactions[transaction_id]
              IN  [self EXCEPT !.clients[client_id] =
                      [client EXCEPT
                          !.available = @ - amount,
                          !.held = MapInsert(@, transaction_id, amount)]]
         ELSE self
    ELSE self

\* hold that removes the tx from the table before it looks up the client
hold_remove_first(self, client_id, transaction_id) ==
    IF transaction_id \in DOMAIN self.transactions
    THEN IF client_id \in DOMAIN self.clients
         THEN LET client == self.clients[client_id]
                  amount == self.transactions[transaction_id]
              IN  [clients |->
                      [self.clients EXCEPT ![client_id] =
                          [client EXCEPT
                              !.available = @ - amount,
                              !.held = MapInsert(@, transaction_id, amount)]],
                   transactions |-> MapRemove(self.transactions, transaction_id)]
         ELSE [self EXCEPT !.transactions = MapRemove(@, transaction_id)]
    ELSE self

hold(self, client_id, transaction_id) ==
    IF client_id \in DOMAIN self.clients
    THEN IF transaction_id \in DOMAIN self.transactions
         THEN LET client == self.clients[client_id]
                  amount == self.transactions[transaction_id]
              IN  [clients |->
                      [self.clients EXCEPT ![client_id] =
                          [client EXCEPT
                              !.available = @ - amount,
                              !.held = MapInsert(@, transaction_id, amount)]],
                   transactions |-> MapRemove(self.transactions, transaction_id)]
         ELSE self
    ELSE self

\* resolve that puts the released tx back into the table of transactions
resolve_reinstate(self, client_id, transaction_id) ==
    IF client_id \in DOMAIN self.clients
    THEN LET client == self.clients[client_id]
         IN  IF transaction_id \in DOMAIN client.held
             THEN [clients |->
                      [self.clients EXCEPT ![client_id] =
                          [client EXCEPT
                              !.available = @ + client.held[transaction_id],
                              !.held = MapRemove(@, transaction_id)]],
                   transactions |->
                      MapInsert(self.transactions, transaction_id,
                                client.held[transaction_id])]
             ELSE self
    ELSE self

\* resolve that releases the tx from whichever account holds it
resolve_any_client(self, client_id, transaction_id) ==
    IF client_id \in DOMAIN self.clients
    THEN [self EXCEPT !.clients =
             [c \in DOMAIN self.clients |->
                 LET client == self.clients[c]
                 IN  IF transaction_id \in DOMAIN client.held
                     THEN [client EXCEPT
                              !.available = @ + client.held[transaction_id],
                              !.held = MapRemove(@, transaction_id)]
                     ELSE client]]
    ELSE self

\* resolve that also adds the amount to `total`
resolve_total(self, client_id, transaction_id) ==
    IF client_id \in DOMAIN self.clients
    THEN LET client == self.clients[client_id]
         IN  IF transaction_id \in DOMAIN client.held
             THEN [self EXCEPT !.clients[client_id] =
                      [client EXCEPT
                          !.available = @ + client.held[transaction_id],
                          !.total = @ + client.held[transaction_id],
                          !.held = MapRemove(@, transaction_id)]]
             ELSE self
    ELSE self

resolve(self, client_id, transaction_id) ==
    IF client_id \in DOMAIN self.clients
    THEN LET client == self.clients[client_id]
         IN  IF transaction_id \in DOMAIN client.held
             THEN [self EXCEPT !.clients[client_id] =
                      [client EXCEPT
                          !.available = @ + client.held[transaction_id],
                          !.held = MapRemove(@, transaction_id)]]
             ELSE self
    ELSE self

\* chageback that debits `available` instead of `total`
chageback_available(self, client_id, transaction_id) ==
    IF client_id \in DOMAIN self.clients
    THEN LET client == self.clients[client_id]
         IN  IF transaction_id \in DOMAIN client.held
             THEN [self EXCEPT !.clients[client_id] =
                      [client EXCEPT
                          !.available = @ - client.held[transaction_id],
                          !.locked = TRUE,
                          !.held = MapRemove(@, transaction_id)]]
             ELSE self
    ELSE self

\* chageback with `client.locked = true` outside the `held.remove` test
chageback_lock_always(self, client_id, transaction_id) ==
    IF client_id \in DOMAIN self.clients
    THEN LET client == self.clients[client_id]
         IN  IF transaction_id \in DOMAIN client.held
             THEN [self EXCEPT !.clients[client_id] =
                      [client EXCEPT
                          !.total = @ - client.held[transaction_id],
                          !.locked = TRUE,
                          !.held = MapRemove(@, transaction_id)]]
             ELSE [self EXCEPT !.clients[client_id].locked = TRUE]
    ELSE self

chageback(self, client_id, transaction_id) ==
    IF client_id \in DOMAIN self.clients
    THEN LET client == self.clients[client_id]
         IN  IF transaction_id \in DOMAIN client.held
             THEN [self EXCEPT !.clients[client_id] =
                      [client EXCEPT
                          !.total = @ - client.held[transaction_id],
                          !.locked = TRUE,
                          !.held = MapRemove(@, transaction_id)]]
             ELSE self
    ELSE self

\* ----------------------------------------------------------- consume_csv
\* Result<(), LedgerErr> of consume_csv: LedgerErr::Parse with the kind of
\* the nom error and the line number, Ok(()), the panic of the decoder, and
\* "running" while the call has not returned
LedgerErr_Parse(kind, line) == [status |-> "Parse", kind |-> kind, line |-> line]
ResultOk == [status |-> "Ok", kind |-> "none", line |-> 0]
Aborted == [status |-> "Abort", kind |-> "none", line |-> 0]
Running == [status |-> "running", kind |-> "none", line |-> 0]
NoResult == [status |-> "none", kind |-> "none", line |-> 0]

\* reader.read_line(&mut buf): the first line of the file with its line
\* feed, nothing at the end of the file
read_line(file) ==
    IF file = <<>> THEN <<>>
    ELSE IF Len(file) = 1 THEN file[1]
    ELSE file[1] \o <<"\n">>

validate_header_lenient(buf) == Running

validate_header(buf) ==
    LET header == parse_header(buf)
    IN  IF header.status # "Ok" THEN LedgerErr_Parse(header.status, 1)
        ELSE Running

\* The body of the loop of consume_csv for the line res that enumerate()
\* numbers i: the ledger after it and Running, or the error returned.  The
\* one-element set binds t to the decoded line, which the match reads.
consume_line_no_skip(self, i, res, overflow_checks) ==
    IF FALSE THEN [ledger |-> self, result |-> Running]
    ELSE CHOOSE next \in {
             IF t.status = "Abort"
             THEN [ledger |-> self, result |-> Aborted]
             ELSE IF t.status # "Ok"
             THEN [ledger |-> self, result |-> LedgerErr_Parse(t.status, i + 2)]
             ELSE [result |-> Running,
                   ledger |->
                       CASE t.type = "withdrawal" ->
                                insert_transaction(self, t.client, t.tx, -t.amount)
                         [] t.type = "deposit" ->
                                insert_transaction(self, t.client, t.tx, t.amount)
                         [] t.type = "dispute" -> hold(self, t.client, t.tx)
                         [] t.type = "resolve" -> resolve(self, t.client, t.tx)
                         [] t.type = "chargeback" ->
                                chageback(self, t.client, t.tx)]
             : t \in {parse_transaction(res, overflow_checks)}} : TRUE

consume_line_index(self, i, res, overflow_checks) ==
    IF Trim(res) = <<>> THEN [ledger |-> self, result |-> Running]
    ELSE CHOOSE next \in {
             IF t.status = "Abort"
             THEN [ledger |-> self, result |-> Aborted]
             ELSE IF t.status # "Ok"
             THEN [ledger |-> self, result |-> LedgerErr_Parse(t.status, i + 1)]
             ELSE [result |-> Running,
                   ledger |->
                       CASE t.type = "withdrawal" ->
                                insert_transaction(self, t.client, t.tx, -t.amount)
                         [] t.type = "deposit" ->
                                insert_transaction(self, t.client, t.tx, t.amount)
                         [] t.type = "dispute" -> hold(self, t.client, t.tx)
                         [] t.type = "resolve" -> resolve(self, t.client, t.tx)
                         [] t.type = "chargeback" ->
                                chageback(self, t.client, t.tx)]
             : t \in {parse_transaction(res, overflow_checks)}} : TRUE

consume_line_keep_going(self, i, res, overflow_checks) ==
    IF Trim(res) = <<>> THEN [ledger |-> self, result |-> Running]
    ELSE CHOOSE next \in {
             IF t.status = "Abort"
             THEN [ledger |-> self, result |-> Aborted]
             ELSE IF t.status # "Ok"
             THEN [ledger |-> self, result |-> Running]
             ELSE [result |-> Running,
                   ledger |->
                       CASE t.type = "withdrawal" ->
                                insert_transaction(self, t.client, t.tx, -t.amount)
                         [] t.type = "deposit" ->
                                insert_transaction(self, t.client, t.tx, t.amount)
                         [] t.type = "dispute" -> hold(self, t.client, t.tx)
                         [] t.type = "resolve" -> resolve(self, t.client, t.tx)
                         [] t.type = "chargeback" ->
                                chageback(self, t.client, t.tx)]
             : t \in {parse_transaction(res, overflow_checks)}} : TRUE

consume_line(self, i, res, overflow_checks) ==
    IF Trim(res) = <<>> THEN [ledger |-> self, result |-> Running]
    ELSE CHOOSE next \in {
             IF t.status = "Abort"
             THEN [ledger |-> self, result |-> Aborted]
             ELSE IF t.status # "Ok"
             THEN [ledger |-> self, result |-> LedgerErr_Parse(t.status, i + 2)]
             ELSE [result |-> Running,
                   ledger |->
                       CASE t.type = "withdrawal" ->
                                insert_transaction(self, t.client, t.tx, -t.amount)
                         [] t.type = "deposit" ->
                                insert_transaction(self, t.client, t.tx, t.amount)
                         [] t.type = "dispute" -> hold(self, t.client, t.tx)
                         [] t.type = "resolve" -> resolve(self, t.client, t.tx)
                         [] t.type = "chargeback" ->
                                chageback(self, t.client, t.tx)]
             : t \in {parse_transaction(res, overflow_checks)}} : TRUE

\* impl Display for Ledger; order is the order in which the HashMap
\* iterates over the client ids
Ledger_header ==
    <<"c", "l", "i", "e", "n", "t", ",", " ", "a", "v", "a", "i", "l", "a", "b", "l", "e", ",", " ", "h", "e", "l", "d", ",", " ", "t", "o", "t", "a", "l", ",", " ", "l", "o", "c", "k", "e", "d">>

RECURSIVE Ledger_fold(_, _)
Ledger_fold(self, order) ==
    IF order = <<>> THEN <<>>
    ELSE <<"\n">> \o Digits(Head(order)) \o <<",", " ">>
             \o ClientData_fmt(self.clients[Head(order)])
             \o Ledger_fold(self, Tail(order))

Ledger_fmt_unlocked(self, order) ==
    Ledger_header
        \o Ledger_fold(self, SelectSeq(order, LAMBDA k : ~self.clients[k].locked))

Ledger_fmt(self, order) == Ledger_header \o Ledger_fold(self, order)

\* the orders a HashMap with these keys can iterate in
Orders(keys) ==
    {o \in [1..Cardinality(keys) -> keys] : {o[i] : i \in DOMAIN o} = keys}

\* ------------------------------------------------ decoder and reporter
\* the digits 9 repeated twenty times: more than i64::MAX
TooBig == [i \in 1..20 |-> "9"]

\* all texts over the characters of set with at most n characters
RECURSIVE TextsUpTo(_, _)
TextsUpTo(set, n) ==
    IF n = 0 THEN {<<>>}
    ELSE LET shorter == TextsUpTo(set, n - 1)
         IN  shorter \cup {t \o <<ch>> : t \in shorter, ch \in set}

\* An argument: an amount text made of an integer part and a fraction, a
\* line made of a keyword, two ids and what follows the third comma, or a
\* scaled amount for the reporter.
Input(kind, text, parts, value) ==
    [kind |-> kind, text |-> text, parts |-> parts, value |-> value]

NoInput == Input("none", <<>>, <<>>, 0)
NoOutput == [status |-> "none"]

\* amount texts: integer part, then "." and the fraction when there is one
IntTexts == {<<"0">>, <<"1">>, <<"1", "2">>, <<"0", "7">>, I64_MAX, TooBig}
FracTexts == TextsUpTo({"0", "1", "5"}, MaxFracLen)

AmountText(int, frac) ==
    IF frac = <<>> THEN int ELSE int \o <<".">> \o frac

AmountInputs ==
    {Input("amount", AmountText(i, f), <<i, f>>, 0) :
        i \in IntTexts, f \in FracTexts}

\* lines: keyword, client, tx and tail, with or without blanks around the
\* first three fields
LineText(key, client, tx, tail, pad) ==
    pad \o key \o pad \o <<",">> \o pad \o client \o pad \o <<",">>
        \o pad \o tx \o pad \o <<",">> \o tail

TailTexts ==
    TextsUpTo({"1", ".", "x", " ", ",", "-"}, MaxTailLen)
        \cup {<<"3", ".", "0">>, <<" ", "2", ".", "2", "5", " ">>,
              <<"1", ".", "2", "3", "4", "5", "6">>,
              <<"3", ".", "0", ",", "f", "o", "o">>, <<"f", "o", "o">>,
              TooBig}

LineInputs ==
    {Input("line", LineText(Keywords[k], <<"1">>, <<"2">>, t, p),
           <<Keywords[k], <<"1">>, <<"2">>, t>>, k) :
        k \in 1..5, t \in TailTexts, p \in {<<>>, <<" ">>}}

\* lines whose ids are at and around the largest u16 and u32; a deposit
\* carries the amount 3.0 and a dispute none
ClientTexts ==
    {<<"0">>, <<"7">>, U16_MAX, <<"0">> \o U16_MAX, <<"6", "5", "5", "3", "6">>,
     <<"0", "6", "5", "5", "3", "6">>, <<"7", "0", "0", "0", "0">>, U32_MAX}
TxTexts ==
    {<<"0">>, <<"7">>, <<"6", "5", "5", "3", "6">>, U32_MAX, <<"0">> \o U32_MAX,
     <<"4", "2", "9", "4", "9", "6", "7", "2", "9", "6">>,
     <<"0", "4", "2", "9", "4", "9", "6", "7", "2", "9", "6">>, TooBig}

IdLineInputs ==
    {Input("line",
           LineText(Keywords[k], c, t, IF k = 1 THEN <<"3", ".", "0">> ELSE <<>>, p),
           <<Keywords[k], c, t, IF k = 1 THEN <<"3", ".", "0">> ELSE <<>> >>, k) :
        k \in {1, 3}, c \in ClientTexts, t \in TxTexts, p \in {<<>>, <<" ">>}}

\* header lines: up to MaxFields fields, each a token of the header, the
\* amount token with a capital, or nothing, joined by commas, with or
\* without whitespace around every field; and a few lines with other
\* separators or with a blank inside a token
HeaderFields ==
    {HeaderTokens[i] : i \in 1..4} \cup {<<"A", "m", "o", "u", "n", "t">>, <<>>}

RECURSIVE Join(_, _)
Join(fields, pad) ==
    IF fields = <<>> THEN <<>>
    ELSE IF Len(fields) = 1 THEN pad \o fields[1] \o pad
    ELSE pad \o fields[1] \o pad \o <<",">> \o Join(Tail(fields), pad)

\* all sequences of at most n elements of set
TuplesUpTo(set, n) == UNION {[1..k -> set] : k \in 0..n}

OddHeaders ==
    {<<"t", "y", " ", "p", "e", ",", "c", "l", "i", "e", "n", "t", ",", "t", "x", ",", "a", "m", "o", "u", "n", "t">>,
     <<"t", "y", "p", "e", " ", "c", "l", "i", "e", "n", "t", " ", "t", "x", " ", "a", "m", "o", "u", "n", "t">>,
     <<"t", "y", "p", "e", ";", "c", "l", "i", "e", "n", "t", ";", "t", "x", ";", "a", "m", "o", "u", "n", "t">>,
     <<"t", "y", "p", "e", ",", "c", "l", "i", "e", "n", "t", ",", "t", "x", ",", "a", "m", "o", "u", "n", "t", "\n">>}

HeaderInputs ==
    {Input("header", Join(f, p), f, 0) :
        f \in TuplesUpTo(HeaderFields, MaxFields),
        p \in {<<>>, <<" ">>, <<"\t", "\n">>}}
    \cup {Input("header", t, <<>>, 0) : t \in OddHeaders}

\* scaled amounts for the reporter
ValueInputs ==
    {Input("value", <<>>, <<>>, v) :
        v \in (-MaxScaled)..MaxScaled}

\* ------------------------------------------------------------ transitions
\* The ledger as one value
Ledger == [clients |-> clients, transactions |-> transactions]
PrevLedger == [clients |-> prevClients, transactions |-> prevTransactions]

Event(type, client, tx, amount) ==
    [type |-> type, client |-> client, tx |-> tx, amount |-> amount]

NoEvent == Event("none", 0, 0, 0)

\* each tx id was carried by at most one deposit/withdrawal so far
unique == repeated = {}

\* a deposit or withdrawal for an account that exists and is locked
DroppedByLock(client_id) ==
    client_id \in DOMAIN clients /\ clients[client_id].locked

\* no dispute is open on the account
NoDispute == [state |-> "none", tx |-> 0, account |-> ClientData_new(0)]

\* the dispute that `ev` leaves open on the account it names: a dispute
\* that takes effect opens one, the resolve of the same tx right after it
\* closes it, any other event naming the account drops it
Track(ev, next) ==
    opened' = [opened EXCEPT ![ev.client] =
        IF ev.type = "dispute" /\ ev.client \in DOMAIN clients /\ next # Ledger
        THEN [state |-> "open", tx |-> ev.tx, account |-> clients[ev.client]]
        ELSE IF ev.type = "resolve" /\ @.state = "open" /\ @.tx = ev.tx
        THEN [@ EXCEPT !.state = "resolved"]
        ELSE NoDispute]

\* one iteration of the loop of consume_csv on a decoded event
Apply(ev, next) ==
    /\ steps < MaxEvents
    /\ Track(ev, next)
    /\ steps' = steps + 1
    /\ last' = ev
    /\ prevClients' = clients
    /\ prevTransactions' = transactions
    /\ clients' = next.clients
    /\ transactions' = next.transactions
    /\ UNCHANGED <<argument, call, output, panics, csv, program>>

\* the amount consume_csv hands to insert_transaction: negated for a
\* withdrawal
SignedAmount(ev) == IF ev.type = "withdrawal" THEN -ev.amount ELSE ev.amount

\* a resolve or chargeback that finds the tx in the client's held table
\* takes it out of the ledger
Release(client_id, transaction_id) ==
    gone' = IF /\ client_id \in DOMAIN clients
               /\ transaction_id \in DOMAIN clients[client_id].held
            THEN gone \cup {transaction_id} ELSE gone

\* a chargeback that finds the tx in the client's held table takes its
\* amount from the account
Charge(client_id, transaction_id) ==
    charged' = IF /\ client_id \in DOMAIN clients
                  /\ transaction_id \in DOMAIN clients[client_id].held
               THEN [charged EXCEPT ![client_id] =
                        @ + clients[client_id].held[transaction_id]]
               ELSE charged

Money(ev) ==
    /\ seen' = seen \cup {ev.tx}
    /\ repeated' = IF ev.tx \in seen THEN repeated \cup {ev.tx} ELSE repeated
    /\ discarded' = IF DroppedByLock(ev.client)
                    THEN discarded \cup {ev.tx} ELSE discarded
    /\ accepted' = IF DroppedByLock(ev.client)
                   THEN accepted
                   ELSE MapInsert(accepted, ev.tx,
                                  [client |-> ev.client,
                                   amount |-> SignedAmount(ev)])
    /\ gone' = gone
    /\ credited' = IF DroppedByLock(ev.client)
                   THEN credited
                   ELSE [credited EXCEPT ![ev.client] = @ + SignedAmount(ev)]
    /\ charged' = charged

Deposit ==
    \E id \in ClientIds, tx \in TxIds, amount \in DepositAmounts :
        /\ Apply(Event("deposit", id, tx, amount),
                 insert_transaction(Ledger, id, tx, amount))
        /\ Money(Event("deposit", id, tx, amount))

Withdrawal ==
    \E id \in ClientIds, tx \in TxIds, amount \in WithdrawalAmounts :
        /\ Apply(Event("withdrawal", id, tx, amount),
                 insert_transaction(Ledger, id, tx, -amount))
        /\ Money(Event("withdrawal", id, tx, amount))

Dispute ==
    \E id \in ClientIds, tx \in TxIds :
        /\ Apply(Event("dispute", id, tx, 0), hold(Ledger, id, tx))
        /\ UNCHANGED <<seen, repeated, discarded, accepted, gone, credited,
                       charged>>

Resolve ==
    \E id \in ClientIds, tx \in TxIds :
        /\ Apply(Event("resolve", id, tx, 0), resolve(Ledger, id, tx))
        /\ Release(id, tx)
        /\ UNCHANGED <<seen, repeated, discarded, accepted, credited, charged>>

Chargeback ==
    \E id \in ClientIds, tx \in TxIds :
        /\ Apply(Event("chargeback", id, tx, 0), chageback(Ledger, id, tx))
        /\ Release(id, tx)
        /\ Charge(id, tx)
        /\ UNCHANGED <<seen, repeated, discarded, accepted, credited>>

\* the ledger before the first event
LedgerInit ==
    /\ clients = Ledger_default.clients
    /\ transactions = Ledger_default.transactions
    /\ last = NoEvent
    /\ prevClients = Ledger_default.clients
    /\ prevTransactions = Ledger_default.transactions
    /\ seen = {}
    /\ repeated = {}
    /\ discarded = {}
    /\ accepted = EmptyMap
    /\ gone = {}
    /\ credited = [c \in ClientIds |-> 0]
    /\ charged = [c \in ClientIds |-> 0]
    /\ opened = [c \in ClientIds |-> NoDispute]
    /\ steps = 0
    /\ program = "lib"

\* no call of consume_csv
CsvIdle ==
    /\ lines = <<>>
    /\ index = 0
    /\ returned = NoResult
    /\ before = Ledger_default

\* the ledger runs take the events as decoded: no text is involved
Init ==
    /\ LedgerInit
    /\ CsvIdle
    /\ argument = NoInput
    /\ call = "none"
    /\ output = NoOutput
    /\ panics = FALSE

Next == Deposit \/ Withdrawal \/ Dispute \/ Resolve \/ Chargeback

Spec == Init /\ [][Next]_vars

\* a call of a decoder or reporter function on one argument
Call(name, result) ==
    /\ call = "none"
    /\ call' = name
    /\ output' = result
    /\ UNCHANGED <<argument, panics, clients, transactions, last,
                   prevClients, prevTransactions, seen, repeated, discarded,
                   accepted, gone, credited, charged, opened,
                   steps, program, csv>>

CallFourDp ==
    /\ argument.kind = "amount"
    /\ Call("four_dp", four_dp(argument.text, panics))

CallParseTransaction ==
    /\ argument.kind = "line"
    /\ Call("parse_transaction", parse_transaction(argument.text, panics))

CallParseHeader ==
    /\ argument.kind = "header"
    /\ Call("parse_header", parse_header(argument.text))

CallDpString ==
    /\ argument.kind = "value"
    /\ Call("dp_string", [status |-> "Ok", text |-> dp_string(argument.value)])

\* the decoder applied to the text the reporter rendered
CallFourDpOfDpString ==
    /\ call = "dp_string"
    /\ call' = "four_dp(dp_string)"
    /\ output' = four_dp(output.text, panics)
    /\ UNCHANGED <<argument, panics, clients, transactions, last,
                   prevClients, prevTransactions, seen, repeated, discarded,
                   accepted, gone, credited, charged, opened,
                   steps, program, csv>>

InitParse ==
    /\ LedgerInit
    /\ CsvIdle
    /\ \/ argument \in AmountInputs
       \/ argument \in LineInputs
       \/ argument \in IdLineInputs
       \/ argument \in HeaderInputs
       \/ argument \in ValueInputs
    /\ call = "none"
    /\ output = NoOutput
    /\ panics \in (IF argument.kind \in {"amount", "line"} THEN BOOLEAN
                   ELSE {FALSE})

NextParse ==
    \/ CallFourDp
    \/ CallParseTransaction
    \/ CallParseHeader
    \/ CallDpString
    \/ CallFourDpOfDpString

SpecParse == InitParse /\ [][NextParse]_vars

\* ------------------------------------------------- consume_csv, by steps
\* The files: a header line, valid or without its amount token, and up to
\* MaxLines lines, each a deposit, a withdrawal that overdraws a new
\* account, a dispute, resolve or chargeback of the deposit, a blank line
\* or a deposit without amount; the empty file; and the file of the test
\* ok_consume.
HeaderLines ==
    {<<"t", "y", "p", "e", ",", " ", "c", "l", "i", "e", "n", "t", ",", " ", "t", "x", ",", " ", "a", "m", "o", "u", "n", "t">>,
     <<"t", "y", "p", "e", ",", " ", "c", "l", "i", "e", "n", "t", ",", " ", "t", "x">>}

DataLines ==
    {<<"d", "e", "p", "o", "s", "i", "t", ",", "1", ",", "1", ",", "2", ".", "0">>,
     <<"w", "i", "t", "h", "d", "r", "a", "w", "a", "l", ",", " ", "2", ",", " ", "2", ",", " ", "1", ".", "5">>,
     <<"d", "i", "s", "p", "u", "t", "e", ",", "1", ",", "1", ",">>,
     <<"r", "e", "s", "o", "l", "v", "e", ",", "1", ",", "1", ",">>,
     <<"c", "h", "a", "r", "g", "e", "b", "a", "c", "k", ",", "1", ",", "1", ",">>,
     <<" ", " ">>,
     <<"d", "e", "p", "o", "s", "i", "t", ",", "1", ",", "3", ",">>}

ok_consume ==
    << <<"t", "y", "p", "e", ",", " ", "c", "l", "i", "e", "n", "t", ",", " ", "t", "x", ",", " ", "a", "m", "o", "u", "n", "t">>,
       <<>>,
       <<"d", "e", "p", "o", "s", "i", "t", ",", " ", "1", ",", " ", "1", ",", " ", "2", "0", ".", "0">>,
       <<"w", "i", "t", "h", "d", "r", "a", "w", "a", "l", ",", "1", ",", "2", ",", "1", "0", ".", "0">>,
       <<"d", "i", "s", "p", "u", "t", "e", ",", "1", ",", "2", ",">>,
       <<"r", "e", "s", "o", "l", "v", "e", ",", "1", ",", "2", ",">>,
       <<" ", " ">>,
       <<"d", "e", "p", "o", "s", "i", "t", ",", "2", ",", "3", ",", "1", "1", "3", ".", "1", "1", "1", "2">>,
       <<"d", "i", "s", "p", "u", "t", "e", ",", "2", ",", "3", ",">>,
       <<"c", "h", "a", "r", "g", "e", "b", "a", "c", "k", ",", "2", ",", "3", ",">>,
       <<>> >>

Files ==
    {<<h>> \o d : h \in HeaderLines, d \in TuplesUpTo(DataLines, MaxLines)}
        \cup {<<>>, ok_consume}

\* the ledgers consume_csv is called on: a new one, and one that
\* insert_transaction(1, 1, 1) was called on
StartLedgers == {Ledger_default, insert_transaction(Ledger_default, 1, 1, 1)}

InitCsv ==
    /\ lines \in Files
    /\ before \in StartLedgers
    /\ index = 0
    /\ returned = Running
    /\ clients = before.clients
    /\ transactions = before.transactions
    /\ last = NoEvent
    /\ prevClients = Ledger_default.clients
    /\ prevTransactions = Ledger_default.transactions
    /\ seen = {}
    /\ repeated = {}
    /\ discarded = {}
    /\ accepted = EmptyMap
    /\ gone = {}
    /\ credited = [c \in ClientIds |-> 0]
    /\ charged = [c \in ClientIds |-> 0]
    /\ opened = [c \in ClientIds |-> NoDispute]
    /\ steps = 0
    /\ program = "lib"
    /\ argument = NoInput
    /\ call = "none"
    /\ output = NoOutput
    /\ panics = FALSE

history == <<last, prevClients, prevTransactions, seen, repeated, discarded,
             accepted, gone, credited, charged, opened,
             steps, program>>

\* validate_header(&mut reader)?
ValidateHeader ==
    /\ call = "none"
    /\ returned = Running
    /\ index = 0
    /\ index' = 1
    /\ returned' = validate_header(read_line(lines))
    /\ UNCHANGED <<clients, transactions, lines, before, history,
                   argument, call, output, panics>>

\* one iteration of `for (index, line) in reader.lines().enumerate()`
ConsumeLine ==
    /\ call = "none"
    /\ returned = Running
    /\ index >= 1
    /\ index < Len(lines)
    /\ \E next \in {consume_line(Ledger, index - 1, lines[index + 1], panics)} :
           /\ clients' = next.ledger.clients
           /\ transactions' = next.ledger.transactions
           /\ returned' = next.result
    /\ index' = index + 1
    /\ UNCHANGED <<lines, before, history, argument, call, output, panics>>

\* Ok(()) after the last line
Return ==
    /\ call = "none"
    /\ returned = Running
    /\ index >= 1
    /\ index >= Len(lines)
    /\ returned' = ResultOk
    /\ UNCHANGED <<clients, transactions, lines, index, before, history,
                   argument, call, output, panics>>

\* ledger.to_string() once consume_csv has returned
LedgerToString ==
    /\ call = "none"
    /\ returned.status \in {"Ok", "Parse"}
    /\ \E order \in Orders(DOMAIN clients) :
           output' = [status |-> "Ok", text |-> Ledger_fmt(Ledger, order)]
    /\ call' = "to_string"
    /\ UNCHANGED <<clients, transactions, csv, history, argument, panics>>

NextCsv == ValidateHeader \/ ConsumeLine \/ Return \/ LedgerToString

SpecCsv == InitCsv /\ [][NextCsv]_vars

\* --------------------------------------------------------------- typing
TypeOK ==
    /\ DOMAIN clients \subseteq ClientIds
    /\ DOMAIN transactions \subseteq TxIds
    /\ \A c \in DOMAIN clients :
          /\ DOMAIN clients[c].held \subseteq TxIds
          /\ clients[c].available \in Int
          /\ clients[c].total \in Int
          /\ clients[c].locked \in BOOLEAN
    /\ steps \in 0..MaxEvents

\* ------------------------------------------------------- the last event
LastIsMoney == last.type \in {"deposit", "withdrawal"}

\* the account named by the last event existed before it
LastHadAccount == last.client \in DOMAIN prevClients

\* the tx named by the last event was in that account's held table
LastWasHeld ==
    LastHadAccount /\ last.tx \in DOMAIN prevClients[last.client].held

\* every account but the one named by the last event is as it was
OthersUnchanged ==
    /\ DOMAIN clients = DOMAIN prevClients \cup {last.client}
    /\ \A c \in DOMAIN prevClients \ {last.client} : clients[c] = prevClients[c]

\* ------------------------------------------------------------------ C1
\* C1: while each tx id is carried by at most one deposit/withdrawal, every
\* account has total = available + the sum of the amounts in its held table,
\* after every event.
C1_TotalIsAvailablePlusHeld ==
    unique =>
        \A c \in DOMAIN clients :
            clients[c].total =
                clients[c].available + SumValues(clients[c].held)

\* an account with a disputed amount on hold, in a run with unique tx ids
C1_Witness ==
    /\ unique
    /\ last.type = "dispute"
    /\ \E c \in DOMAIN clients :
          /\ DOMAIN clients[c].held # {}
          /\ clients[c].total # clients[c].available

\* ------------------------------------------------------------------ C2
\* C2: an account that is locked stays in the ledger and stays locked in
\* the next state, whatever event is applied.
C2_LockedForever ==
    [][\A c \in DOMAIN clients :
          clients[c].locked => (c \in DOMAIN clients' /\ clients'[c].locked)]_vars

\* a deposit or withdrawal named an account that was already locked
C2_Witness ==
    /\ LastIsMoney
    /\ LastHadAccount
    /\ prevClients[last.client].locked
    /\ clients[last.client].locked

\* ------------------------------------------------------------------ C3
\* C3 as stated: a deposit or withdrawal naming a locked account changes
\* nothing, and every later dispute naming its tx id is a no-op.
C3_Original ==
    /\ (LastIsMoney /\ LastHadAccount /\ prevClients[last.client].locked)
          => Ledger = PrevLedger
    /\ \A t \in discarded :
          /\ \A c \in ClientIds : hold(Ledger, c, t) = Ledger
          /\ (last.type = "dispute" /\ last.tx = t) => Ledger = PrevLedger

\* C3 amended: a deposit or withdrawal naming a locked account changes
\* nothing in the ledger; and when no other deposit/withdrawal carries its
\* tx id, that tx id is never in the global table and every later dispute
\* naming it is a no-op.
C3_LockedDiscards ==
    /\ (LastIsMoney /\ LastHadAccount /\ prevClients[last.client].locked)
          => Ledger = PrevLedger
    /\ \A t \in discarded \ repeated :
          /\ t \notin DOMAIN transactions
          /\ \A c \in ClientIds : hold(Ledger, c, t) = Ledger
          /\ (last.type = "dispute" /\ last.tx = t) => Ledger = PrevLedger

\* a dispute named a tx id that a locked account's deposit/withdrawal
\* carried, by a client that has an account
C3_Witness ==
    /\ last.type = "dispute"
    /\ last.tx \in discarded \ repeated
    /\ LastHadAccount

\* ------------------------------------------------------------------ C4
\* C4: a deposit uses +a and a withdrawal -a; an unknown client gets a new
\* account with available = total = that amount, an empty held table and
\* locked = false; an unlocked account has available and total increased by
\* it; in both cases tx -> amount is inserted into the global table, with
\* no balance check.
C4_InsertTransaction ==
    LastIsMoney =>
        LET a == SignedAmount(last)
            c == last.client
        IN  /\ ~LastHadAccount =>
                  /\ clients[c] = [held |-> EmptyMap, available |-> a,
                                   total |-> a, locked |-> FALSE]
                  /\ OthersUnchanged
                  /\ transactions = MapInsert(prevTransactions, last.tx, a)
            /\ (LastHadAccount /\ ~prevClients[c].locked) =>
                  /\ clients[c].available = prevClients[c].available + a
                  /\ clients[c].total = prevClients[c].total + a
                  /\ clients[c].held = prevClients[c].held
                  /\ clients[c].locked = FALSE
                  /\ OthersUnchanged
                  /\ transactions = MapInsert(prevTransactions, last.tx, a)

\* a withdrawal was applied to an unlocked account and left available
\* negative
C4_Witness ==
    /\ last.type = "withdrawal"
    /\ LastHadAccount
    /\ ~prevClients[last.client].locked
    /\ prevClients[last.client].available >= 0
    /\ clients[last.client].available < 0
    /\ transactions[last.tx] = -last.amount

\* ------------------------------------------------------------------ C5
\* C5: a dispute of a tx that is in the global table with amount m, by a
\* client that has an account, removes the tx from the global table, takes
\* m from available, inserts tx -> m into the held table and leaves total
\* and locked alone.
C5_Dispute ==
    (last.type = "dispute" /\ LastHadAccount
        /\ last.tx \in DOMAIN prevTransactions) =>
        LET m == prevTransactions[last.tx]
            c == last.client
        IN  /\ transactions = MapRemove(prevTransactions, last.tx)
            /\ last.tx \notin DOMAIN transactions
            /\ clients[c].available = prevClients[c].available - m
            /\ clients[c].held = MapInsert(prevClients[c].held, last.tx, m)
            /\ clients[c].total = prevClients[c].total
            /\ clients[c].locked = prevClients[c].locked

\* a dispute took a tx out of the global table
C5_Witness ==
    /\ last.type = "dispute"
    /\ LastHadAccount
    /\ last.tx \in DOMAIN prevTransactions
    /\ DOMAIN prevClients[last.client].held # {}

\* ------------------------------------------------------------------ C6
\* C6: a resolve of a tx held by the client with amount m removes it from
\* the held table, adds m to available and leaves total, locked and the
\* global table alone.
C6_Resolve ==
    (last.type = "resolve" /\ LastWasHeld) =>
        LET c == last.client
            m == prevClients[c].held[last.tx]
        IN  /\ clients[c].held = MapRemove(prevClients[c].held, last.tx)
            /\ clients[c].available = prevClients[c].available + m
            /\ clients[c].total = prevClients[c].total
            /\ clients[c].locked = prevClients[c].locked
            /\ transactions = prevTransactions

\* a resolve released a held tx while the global table was not empty
C6_Witness ==
    /\ last.type = "resolve"
    /\ LastWasHeld
    /\ DOMAIN prevTransactions # {}

\* ------------------------------------------------------------------ C7
\* C7: a chargeback of a tx held by the client with amount m removes it
\* from the held table, takes m from total, sets locked (also when it was
\* set) and leaves available and the global table alone.
C7_Chargeback ==
    (last.type = "chargeback" /\ LastWasHeld) =>
        LET c == last.client
            m == prevClients[c].held[last.tx]
        IN  /\ clients[c].held = MapRemove(prevClients[c].held, last.tx)
            /\ clients[c].total = prevClients[c].total - m
            /\ clients[c].locked = TRUE
            /\ clients[c].available = prevClients[c].available
            /\ transactions = prevTransactions

\* a chargeback took a held tx from an account that was already locked
C7_Witness ==
    /\ last.type = "chargeback"
    /\ LastWasHeld
    /\ prevClients[last.client].locked

\* ------------------------------------------------------------------ C8
\* C8: in every reachable state, a dispute applied twice in a row leaves the
\* ledger that one application leaves; a dispute repeated right after
\* itself changes nothing.
C8_DisputeIdempotent ==
    /\ \A c \in ClientIds, t \in TxIds :
          hold(hold(Ledger, c, t), c, t) = hold(Ledger, c, t)
    /\ last.type = "dispute" => hold(Ledger, last.client, last.tx) = Ledger

\* a dispute has just taken effect
C8_Witness ==
    /\ last.type = "dispute"
    /\ Ledger # PrevLedger
    /\ last.tx \in DOMAIN clients[last.client].held

\* ------------------------------------------------------------------ C9
\* C9: a dispute of a tx that is not in the global table, or by a client
\* without an account, leaves the whole ledger as it was.
C9_DisputeNoOp ==
    (last.type = "dispute"
        /\ (last.tx \notin DOMAIN prevTransactions \/ ~LastHadAccount)) =>
        Ledger = PrevLedger

\* a dispute named a tx of the global table for a client without account
C9_Witness ==
    /\ last.type = "dispute"
    /\ last.tx \in DOMAIN prevTransactions
    /\ ~LastHadAccount
    /\ last.tx \in DOMAIN transactions

\* ----------------------------------------------------------------- C10
\* C10: a resolve or chargeback by a client without an account, or of a tx
\* that is not in that client's held table, leaves the whole ledger as it
\* was; such a chargeback locks no account.
C10_ResolveChargebackNoOp ==
    (last.type \in {"resolve", "chargeback"} /\ ~LastWasHeld) =>
        /\ Ledger = PrevLedger
        /\ \A c \in DOMAIN clients : clients[c].locked = prevClients[c].locked

\* a chargeback named a tx that another account holds
C10_Witness ==
    /\ last.type = "chargeback"
    /\ LastHadAccount
    /\ ~prevClients[last.client].locked
    /\ last.tx \notin DOMAIN prevClients[last.client].held
    /\ \E c \in DOMAIN prevClients : last.tx \in DOMAIN prevClients[c].held

\* ------------------------------------------------------ where a tx id is
\* the accounts that hold tx t
Holders(t) == {c \in DOMAIN clients : t \in DOMAIN clients[c].held}

\* the tx ids in some account's held table
HeldTxs == {t \in TxIds : Holders(t) # {}}

\* ----------------------------------------------------------------- C11
\* C11: while each tx id is carried by at most one deposit/withdrawal, a tx
\* that was resolved or charged back is in neither the global table nor a
\* held table, every dispute, resolve or chargeback naming it is a no-op,
\* and a tx that is or was in a held table is not in the global table.
C11_OneWayLifecycle ==
    unique =>
        /\ \A t \in gone :
              /\ t \notin DOMAIN transactions
              /\ Holders(t) = {}
              /\ \A c \in ClientIds :
                    /\ hold(Ledger, c, t) = Ledger
                    /\ resolve(Ledger, c, t) = Ledger
                    /\ chageback(Ledger, c, t) = Ledger
              /\ last.tx = t /\ ~LastWasHeld => Ledger = PrevLedger
        /\ \A t \in HeldTxs \cup gone : t \notin DOMAIN transactions

\* a dispute named a tx that had been resolved or charged back
C11_Witness ==
    /\ unique
    /\ last.type = "dispute"
    /\ last.tx \in gone
    /\ LastHadAccount
    /\ HeldTxs # {}

\* ----------------------------------------------------------------- C12
\* C12: a dispute, by a locked account, of a tx accepted for that account
\* and still in the global table changes nothing.
C12_LockedDisputeNoOp ==
    (/\ last.type = "dispute"
     /\ LastHadAccount
     /\ prevClients[last.client].locked
     /\ last.tx \in DOMAIN prevTransactions
     /\ last.tx \in DOMAIN accepted
     /\ accepted[last.tx].client = last.client) =>
        Ledger = PrevLedger

\* ----------------------------------------------------------------- C13
\* C13: no event changes the available, held or total of an account that
\* was locked before it.
C13_LockedFrozen ==
    \A c \in DOMAIN prevClients :
        prevClients[c].locked =>
            /\ clients[c].available = prevClients[c].available
            /\ clients[c].held = prevClients[c].held
            /\ clients[c].total = prevClients[c].total

\* ----------------------------------------------------------------- C14
\* C14: while each tx id is carried by at most one deposit/withdrawal, a tx
\* id is never in the global table and a held table at once, and never in
\* the held tables of two accounts.
C14_OnePlace ==
    unique =>
        \A t \in TxIds :
            /\ ~(t \in DOMAIN transactions /\ Holders(t) # {})
            /\ Cardinality(Holders(t)) <= 1

\* one tx in the global table and another on hold, each account holding
\* or owning something
C14_Witness ==
    /\ unique
    /\ last.type = "dispute"
    /\ DOMAIN transactions # {}
    /\ HeldTxs # {}
    /\ Cardinality(DOMAIN clients) = 2

\* ----------------------------------------------------------------- C15
\* C15: a dispute of a tx of the global table, by a client other than the
\* one it was accepted for, changes no account and leaves the tx in the
\* global table.
C15_ForeignDisputeNoOp ==
    (/\ last.type = "dispute"
     /\ last.tx \in DOMAIN prevTransactions
     /\ last.tx \in DOMAIN accepted
     /\ accepted[last.tx].client # last.client) =>
        /\ clients = prevClients
        /\ last.tx \in DOMAIN transactions

\* ----------------------------------------------------------------- C16
\* C16: while each tx id is carried by at most one deposit/withdrawal, an
\* accepted deposit/withdrawal is in the global table with its signed
\* amount unless a dispute of it took effect; only such a dispute takes an
\* entry out of the table; and a dispute of it by the client it was
\* accepted for takes effect.
C16_NoEviction ==
    unique =>
        /\ \A t \in DOMAIN accepted :
              t \notin HeldTxs \cup gone =>
                  /\ t \in DOMAIN transactions
                  /\ transactions[t] = accepted[t].amount
        /\ \A t \in DOMAIN prevTransactions :
              /\ t \in DOMAIN transactions =>
                    transactions[t] = prevTransactions[t]
              /\ t \notin DOMAIN transactions =>
                    last.type = "dispute" /\ last.tx = t /\ LastHadAccount
        /\ \A t \in DOMAIN transactions :
              LET c == accepted[t].client
                  after == hold(Ledger, c, t)
              IN  /\ t \notin DOMAIN after.transactions
                  /\ t \in DOMAIN after.clients[c].held
                  /\ after.clients[c].held[t] = accepted[t].amount

\* the owner's dispute of a tx took effect at the end of a run in which
\* another tx went through dispute and resolve or chargeback
C16_Witness ==
    /\ unique
    /\ last.type = "dispute"
    /\ last.tx \in DOMAIN prevTransactions
    /\ accepted[last.tx].client = last.client
    /\ last.tx \in DOMAIN clients[last.client].held
    /\ gone # {}
    /\ steps = MaxEvents
\* The integer part and the fraction of the amount text four_dp was given.
IntPart == argument.parts[1]
FracPart == argument.parts[2]

\* C17 (as claimed): for an amount text of integer digits I, optionally
\* followed by "." and a fraction F of 1 to 4 digits, leading and trailing
\* zeros included, four_dp consumes the text and returns
\* value(I) * 10000 + value(F) * 10^(4 - k), where k is the length of F.
\* Integer parts whose scaled value exceeds 64 bits are left out.
C17_FourDpValue ==
    (/\ call = "four_dp"
     /\ IntPart \notin {I64_MAX, TooBig}
     /\ Len(FracPart) <= 4)
        => /\ output.status = "Ok"
           /\ output.rest = <<>>
           /\ output.value = DigitsValue(IntPart) * 10000
                  + DigitsValue(FracPart) * Pow10(4 - Len(FracPart))

\* C18 (as claimed): for every scaled amount v >= 0, four_dp applied to
\* the text dp_string renders for v consumes the text and returns v.
C18_RoundTrip ==
    (call = "four_dp(dp_string)" /\ argument.value >= 0)
        => /\ output.status = "Ok"
           /\ output.rest = <<>>
           /\ output.value = argument.value

\* The fields of the line parse_transaction was given: keyword, and what
\* follows the third comma.
KeyPart == argument.parts[1]
TailPart == argument.parts[4]

\* a well-formed amount: one or more digits, optionally followed by "."
\* and one to four digits
IsAmount(t) ==
    LET n == LeadLen(t, DigitChars)
        frac == Drop(t, n + 1)
    IN  /\ n >= 1
        /\ \/ n = Len(t)
           \/ /\ t[n + 1] = "."
              /\ Len(frac) \in 1..4
              /\ LeadLen(frac, DigitChars) = Len(frac)

MoneyKeys == {Keywords[1], Keywords[2]}

\* the line was decoded as the event of its keyword and ids
Decoded ==
    /\ output.status = "Ok"
    /\ output.type = KeywordNames[argument.value]
    /\ output.ids = <<StripZeros(argument.parts[2]),
                      StripZeros(argument.parts[3])>>

\* C19 (as claimed): parse_transaction fails on a deposit or withdrawal line
\* with nothing or only blanks after the third comma, fails on a dispute,
\* resolve or chargeback line with a well-formed amount there, and returns
\* the matching event when the amount is present for a deposit or withdrawal
\* (amounts too large for 64 bits left out) and absent for the other three.
C19_AmountRequiredOrForbidden ==
    call = "parse_transaction" =>
        LET tail == Trim(TailPart)
        IN  /\ (KeyPart \in MoneyKeys /\ tail = <<>>) => output.status # "Ok"
            /\ (KeyPart \notin MoneyKeys /\ IsAmount(tail))
                   => output.status # "Ok"
            /\ (KeyPart \in MoneyKeys /\ IsAmount(tail) /\ tail # TooBig)
                   => Decoded
            /\ (KeyPart \notin MoneyKeys /\ tail = <<>>) => Decoded

\* C20 (as claimed): for all five keywords, parse_transaction fails on a
\* line whose text after the third comma is neither blank nor exactly one
\* well-formed amount: extra fields, letters, a sign, a malformed number.
C20_GarbageFails ==
    (/\ call = "parse_transaction"
     /\ Trim(TailPart) # <<>>
     /\ ~IsAmount(Trim(TailPart)))
        => output.status # "Ok"

\* C21 (as claimed): when integer_part * 10000 + fraction does not fit in
\* a signed 64-bit integer, four_dp returns a decode failure: it neither
\* returns a wrapped amount nor aborts, also when the integer part alone
\* fits in 64 bits.
C21_OverflowFails ==
    (/\ call = "four_dp"
     /\ Len(FracPart) <= 4
     /\ ~FitsIn(IntPart \o FracPart \o Zeros(4 - Len(FracPart)), I64_MAX))
        => output.status \in {"Error", "Failure"}

\* The id fields of the line parse_transaction was given.
ClientPart == argument.parts[2]
TxPart == argument.parts[3]

\* the id texts of the inputs that are above the largest u16 and u32
ClientsAbove ==
    {<<"6", "5", "5", "3", "6">>, <<"0", "6", "5", "5", "3", "6">>,
     <<"7", "0", "0", "0", "0">>, U32_MAX}
TxsAbove ==
    {<<"4", "2", "9", "4", "9", "6", "7", "2", "9", "6">>,
     <<"0", "4", "2", "9", "4", "9", "6", "7", "2", "9", "6">>, TooBig}

\* C22: parse_transaction fails on every line whose client id exceeds 65535
\* or whose tx id exceeds 4294967295, and decodes the lines whose ids are at
\* most those bounds into an event carrying exactly the ids written.
C22_IdRange ==
    (call = "parse_transaction" /\ argument \in IdLineInputs) =>
        IF ClientPart \in ClientsAbove \/ TxPart \in TxsAbove
        THEN output.status \in {"Error", "Failure"}
        ELSE /\ output.status = "Ok"
             /\ output.type = KeywordNames[argument.value]
             /\ output.ids = <<StripZeros(ClientPart), StripZeros(TxPart)>>

\* a line with both ids at their bounds has been decoded
C22_Witness ==
    /\ call = "parse_transaction"
    /\ argument \in IdLineInputs
    /\ ClientPart = U16_MAX
    /\ TxPart = U32_MAX
    /\ output.status = "Ok"

\* the fields of a text: the texts between its separators
RECURSIVE Split(_, _)
Split(t, sep) ==
    LET n == LeadLen(t, {t[i] : i \in 1..Len(t)} \ {sep})
    IN  IF n = Len(t) THEN <<t>>
        ELSE <<Take(t, n)>> \o Split(Drop(t, n + 1), sep)

\* the text is the four tokens type, client, tx, amount in that order,
\* separated by single commas, with any whitespace around each token
IsHeader(t) ==
    LET fields == Split(t, ",")
    IN  /\ Len(fields) = 4
        /\ \A i \in 1..4 : Trim(fields[i]) = HeaderTokens[i]

Abs(n) == IF n < 0 THEN -n ELSE n

\* C26 (as claimed): dp_string renders every scaled value v, negative ones
\* included, as the decimal text of v / 10000, a ".", and abs(v % 10000)
\* padded with zeros to four digits: the fraction is four digits long and
\* holds no sign.
C26_DpString ==
    call = "dp_string" =>
        LET v == argument.value
            frac == Digits(Abs(RustRem(v, 10000)))
        IN  output.text = Display(RustDiv(v, 10000)) \o <<".">>
                              \o Zeros(4 - Len(frac)) \o frac

\* an amount text outside the grammar in one of four ways: no digit before
\* the ".", a sign in front, a "." followed by no digit, or more than four
\* digits after the "."
BadAmount(t) ==
    LET n == LeadLen(t, DigitChars)
        k == LeadLen(Drop(t, n + 1), DigitChars)
    IN  /\ t # <<>>
        /\ \/ t[1] \in {".", "-", "+"}
           \/ /\ n >= 1
              /\ n < Len(t)
              /\ t[n + 1] = "."
              /\ (k = 0 \/ k > 4)

\* C29: parse_transaction fails on a deposit or withdrawal line whose amount
\* has no integer digit, has a "." followed by no digit, has more than four
\* fractional digits, or carries a sign: no event is returned for it.
C29_BadAmountFails ==
    (/\ call = "parse_transaction"
     /\ KeyPart \in MoneyKeys
     /\ BadAmount(Trim(TailPart)))
        => output.status \in {"Error", "Failure"}

\* a deposit or withdrawal whose amount is "1." has been refused
C29_Witness ==
    /\ call = "parse_transaction"
    /\ KeyPart \in MoneyKeys
    /\ Trim(TailPart) = <<"1", ".">>
    /\ output.status = "Failure"

\* ------------------------------------------------- consume_csv, claims
\* the first line of the file, the header
HeaderLine == IF lines = <<>> THEN <<>> ELSE lines[1]

\* a line after the header that consume_csv skips
Blank(line) == Trim(line) = <<>>

\* line n of the file fails to decode
FailsToDecode(n) ==
    IF n = 1 THEN ~IsHeader(HeaderLine)
    ELSE /\ ~Blank(lines[n])
         /\ parse_transaction(lines[n], panics).status # "Ok"

\* the 1-based number of the first line that fails to decode, 0 when every
\* line decodes
FirstBadLine ==
    LET bad == {n \in 1..Len(lines) : FailsToDecode(n)} \cup
                   (IF lines = <<>> THEN {1} ELSE {})
    IN  IF bad = {} THEN 0
        ELSE CHOOSE n \in bad : \A m \in bad : n <= m

\* C24: every decode failure consume_csv returns carries the 1-based number
\* of the offending line in the file: 1 for the header, n for the data line
\* that is the n-th line, blank lines counted although they are skipped.
C24_LineNumber ==
    returned.status = "Parse" =>
        /\ FirstBadLine >= 1
        /\ returned.line = FirstBadLine

\* a failure on a line that comes after a blank line
C24_Witness ==
    /\ returned.status = "Parse"
    /\ returned.line >= 3
    /\ \E k \in 2..(returned.line - 1) : Blank(lines[k])

\* C25: when the header line is invalid (the amount token missing, the
\* file empty), consume_csv returns a parse failure for line 1, and the
\* accounts and the global table are as they were before the call: no data
\* line is read.
C25_InvalidHeader ==
    (index >= 1 /\ ~IsHeader(HeaderLine)) =>
        /\ returned.status = "Parse"
        /\ returned.line = 1
        /\ index = 1
        /\ Ledger = before

\* a header without amount was refused, on a ledger that held an account,
\* with a deposit on the next line
C25_Witness ==
    /\ returned.status = "Parse"
    /\ returned.line = 1
    /\ before # Ledger_default
    /\ Len(lines) >= 2
    /\ parse_transaction(lines[2], panics).status = "Ok"

\* C27: consuming the file of ok_consume (header; deposit 1,1,20.0;
\* withdrawal 1,2,10.0; dispute 1,2; resolve 1,2; deposit 2,3,113.1112;
\* dispute 2,3; chargeback 2,3; blank lines between them) on a new ledger
\* succeeds and leaves exactly two accounts: 1 with available 10.0000, held
\* 0.0000, total 10.0000, not locked, and 2 with 0.0000, 0.0000, 0.0000,
\* locked.
C27_OkConsume ==
    (lines = ok_consume /\ before = Ledger_default) =>
        /\ returned.status \in {"running", "Ok"}
        /\ returned.status = "Ok" =>
              /\ DOMAIN clients = {1, 2}
              /\ ClientData_fmt(clients[1]) =
                     <<"1", "0", ".", "0", "0", "0", "0", ",", " ", "0", ".", "0", "0", "0", "0", ",", " ", "1", "0", ".", "0", "0", "0", "0", ",", " ", "f", "a", "l", "s", "e">>
              /\ ClientData_fmt(clients[2]) =
                     <<"0", ".", "0", "0", "0", "0", ",", " ", "0", ".", "0", "0", "0", "0", ",", " ", "0", ".", "0", "0", "0", "0", ",", " ", "t", "r", "u", "e">>

C27_Witness ==
    /\ lines = ok_consume
    /\ before = Ledger_default
    /\ returned = ResultOk

\* the rows of a report: its lines after the first
ReportLines == Split(output.text, "\n")

\* the row of an account
Row(id) == Digits(id) \o <<",", " ">> \o ClientData_fmt(clients[id])

\* C28: the report is the line "client, available, held, total, locked"
\* followed by exactly one row per account of the ledger, none left out and
\* none repeated, each giving the id, available, the sum of held, total and
\* locked of its account; the ledger whose only event is a deposit of the
\* scaled amount 1 for client 1 reports the one row
\* "1, 0.0001, 0.0000, 0.0001, false".
C28_Report ==
    call = "to_string" =>
        /\ ReportLines[1] = Ledger_header
        /\ Len(ReportLines) = 1 + Cardinality(DOMAIN clients)
        /\ \A id \in DOMAIN clients :
               Cardinality({i \in 2..Len(ReportLines) : ReportLines[i] = Row(id)}) = 1
        /\ Ledger = insert_transaction(Ledger_default, 1, 1, 1) =>
               ReportLines = <<Ledger_header,
                               <<"1", ",", " ", "0", ".", "0", "0", "0", "1", ",", " ", "0", ".", "0", "0", "0", "0", ",", " ", "0", ".", "0", "0", "0", "1", ",", " ", "f", "a", "l", "s", "e">>>>

\* a report of two accounts, one of them locked
C28_Witness ==
    /\ call = "to_string"
    /\ Cardinality(DOMAIN clients) = 2
    /\ \E id \in DOMAIN clients : clients[id].locked

\* the event of a decoded line applied to a ledger
ApplyEvent(ledger, t) ==
    CASE t.type = "withdrawal" ->
             insert_transaction(ledger, t.client, t.tx, -t.amount)
      [] t.type = "deposit" -> insert_transaction(ledger, t.client, t.tx, t.amount)
      [] t.type = "dispute" -> hold(ledger, t.client, t.tx)
      [] t.type = "resolve" -> resolve(ledger, t.client, t.tx)
      [] t.type = "chargeback" -> chageback(ledger, t.client, t.tx)

\* the ledger after the events of the non-blank lines of ls, in order, up
\* to the first line that does not decode
RECURSIVE ApplyLines(_, _)
ApplyLines(ledger, ls) ==
    IF ls = <<>> THEN ledger
    ELSE IF Blank(Head(ls)) THEN ApplyLines(ledger, Tail(ls))
    ELSE LET t == parse_transaction(Head(ls), panics)
         IN  IF t.status # "Ok" THEN ledger
             ELSE ApplyLines(ApplyEvent(ledger, t), Tail(ls))

\* C30: consume_csv applies the events in line order and stops at the first
\* line that fails to decode: when it returns a failure for line n the
\* ledger is the one obtained by applying the events of the non-blank data
\* lines before n, in order; until then it is the one obtained from the
\* lines read so far.
C30_InOrderUntilFailure ==
    index >= 1 =>
        LET read == IF returned.status = "Parse" THEN returned.line - 1
                    ELSE index
        IN  Ledger = ApplyLines(before, SubSeq(lines, 2, read))

\* a failure after lines that changed the ledger
C30_Witness ==
    /\ returned.status = "Parse"
    /\ returned.line >= 3
    /\ returned.line < Len(lines)
    /\ Ledger # before

\* ----------------------------------------------------------------- C31
\* C31: every account has total = available + the sum of the amounts in
\* its held table after every event of every sequence, whether or not a
\* deposit or withdrawal reuses a tx id that is in the global table or in a
\* held table.
C31_TotalIsAvailablePlusHeldAlways ==
    \A c \in DOMAIN clients :
        clients[c].total =
            clients[c].available + SumValues(clients[c].held)

\* total = available + the sum of the held amounts, on every account of a
\* table of accounts
Balanced(accounts) ==
    \A c \in DOMAIN accounts :
        accounts[c].total =
            accounts[c].available + SumValues(accounts[c].held)

\* the last event is a dispute of a tx id that was in the global table and
\* in the named account's held table at once: `held.insert` replaces the
\* entry
LastOverwroteHeld ==
    /\ last.type = "dispute"
    /\ LastWasHeld
    /\ last.tx \in DOMAIN prevTransactions

\* C31 as the code has it: every event keeps total = available + held on
\* every account, reused tx ids included, except a dispute of a tx id that
\* is in the global table and already in the named account's held table
\* (which takes a deposit or withdrawal that reused the id while it was
\* held).
C31_BalancedUnlessHeldOverwritten ==
    (Balanced(prevClients) /\ ~LastOverwroteHeld) => Balanced(clients)

\* a dispute of a reused tx id takes effect while another account holds the
\* same id, and the accounts still balance
C31_Witness ==
    /\ last.type = "dispute"
    /\ last.tx \in repeated
    /\ Ledger # PrevLedger
    /\ Cardinality(Holders(last.tx)) = 2
    /\ Balanced(prevClients)
    /\ Balanced(clients)

\* ----------------------------------------------------------------- C32
\* C32: an operation for client c changes at most the account of c: every
\* other account has the same available, held table, total and locked as
\* before the event, no account other than c's appears, and no account is
\* ever removed.
C32_OnlyNamedAccount ==
    /\ DOMAIN prevClients \subseteq DOMAIN clients
    /\ DOMAIN clients \subseteq DOMAIN prevClients \cup {last.client}
    /\ \A c \in DOMAIN prevClients \ {last.client} :
          clients[c] = prevClients[c]

\* a resolve changes the account it names while the other account holds
\* the same tx id and is left as it was
C32_Witness ==
    /\ last.type = "resolve"
    /\ LastHadAccount
    /\ clients[last.client] # prevClients[last.client]
    /\ \E c \in DOMAIN prevClients \ {last.client} :
          /\ last.tx \in DOMAIN prevClients[c].held
          /\ clients[c] = prevClients[c]

\* ----------------------------------------------------------------- C33
\* C33: an account is locked only by a chargeback that names it and finds
\* the tx in its held table: an account that is locked after an event and
\* was not locked (or did not exist) before it was named by that event, the
\* event is a chargeback, and the tx was in the account's held table and is
\* no longer there. Deposits, withdrawals, disputes, resolves and
\* chargebacks that find nothing lock no account.
C33_LockedOnlyByChargeback ==
    \A c \in DOMAIN clients :
        (/\ clients[c].locked
         /\ ~(c \in DOMAIN prevClients /\ prevClients[c].locked)) =>
            /\ last.type = "chargeback"
            /\ last.client = c
            /\ LastWasHeld
            /\ last.tx \notin DOMAIN clients[c].held

\* a chargeback that finds nothing leaves an unlocked account with a held
\* tx unlocked
C33_Witness ==
    /\ last.type = "chargeback"
    /\ LastHadAccount
    /\ ~LastWasHeld
    /\ DOMAIN clients[last.client].held # {}
    /\ ~clients[last.client].locked
    /\ \E c \in DOMAIN clients : clients[c].locked

\* ----------------------------------------------------------------- C34
\* C34: after any sequence of events from the empty ledger, each account's
\* total is the sum of the signed amounts of the deposits/withdrawals
\* accepted for it (not dropped by a lock) minus the sum of the amounts
\* chargebacks removed from its held table; a dispute or a resolve changes
\* no account's total.
C34_TotalConserved ==
    /\ \A c \in DOMAIN clients :
          clients[c].total = credited[c] - charged[c]
    /\ last.type \in {"dispute", "resolve"} =>
          /\ DOMAIN clients = DOMAIN prevClients
          /\ \A c \in DOMAIN clients :
                clients[c].total = prevClients[c].total

\* an account that was credited, charged back and then had a deposit or
\* withdrawal dropped by its lock, with part of its credit left
C34_Witness ==
    /\ LastIsMoney
    /\ LastHadAccount
    /\ prevClients[last.client].locked
    /\ charged[last.client] # 0
    /\ credited[last.client] # charged[last.client]
    /\ clients[last.client].total = credited[last.client] - charged[last.client]

\* ----------------------------------------------------------------- C35
\* C35: a dispute that takes effect and, as the next event naming the same
\* account, the resolve of the same tx cancel out: after the resolve the
\* account has the available, held table, total and locked it had before
\* the dispute, and the tx is not in the global table.
C35_DisputeResolveCancels ==
    \A c \in ClientIds :
        opened[c].state = "resolved" =>
            /\ clients[c] = opened[c].account
            /\ (last.type = "resolve" /\ last.client = c) =>
                  last.tx \notin DOMAIN transactions

\* the dispute of `opened[c]` replaced an entry of the account's held table
OverwroteHeld(c) == opened[c].tx \in DOMAIN opened[c].account.held

\* C35 as the code has it: the account is back to what it was before the
\* dispute unless the dispute replaced an entry its held table already had
\* for the tx (then the resolve removes the entry and the account ends with
\* the available and held table it had before the entry was first held);
\* and the tx is not in the global table after the resolve unless a deposit
\* or withdrawal carried the same tx id a second time.
C35_CancelsUnlessReused ==
    \A c \in ClientIds :
        opened[c].state = "resolved" =>
            /\ ~OverwroteHeld(c) => clients[c] = opened[c].account
            /\ OverwroteHeld(c) =>
                  /\ clients[c].held =
                        MapRemove(opened[c].account.held, opened[c].tx)
                  /\ clients[c].available = opened[c].account.available
                  /\ clients[c].total = opened[c].account.total
                  /\ clients[c].locked = opened[c].account.locked
            /\ (last.type = "resolve" /\ last.client = c
                  /\ last.tx \notin repeated) =>
                  last.tx \notin DOMAIN transactions

\* a resolve undoes a dispute of the same account after events on the other
\* account in between
C35_Witness ==
    /\ last.type = "resolve"
    /\ opened[last.client].state = "resolved"
    /\ ~OverwroteHeld(last.client)
    /\ clients[last.client] = opened[last.client].account
    /\ clients[last.client] # prevClients[last.client]
    /\ last.tx \notin DOMAIN transactions
    /\ \E c \in DOMAIN clients \ {last.client} :
          /\ opened[c].state = "open"
          /\ opened[c].tx # last.tx

\* ------------------------------------------------- the command-line crate
\* src/src/ledger.rs and src/src/bank.rs hold the crate's own ledger, with
\* f64 amounts. The amounts of the runs are small whole numbers, on which
\* f64 sums and differences are exact, so they are kept as integers.

\* ClientData::new of src/src/ledger.rs
cli_ClientData_new(amount) ==
    [held |-> EmptyMap, available |-> amount, total |-> amount, locked |-> FALSE]

\* Ledger::insert_transaction of src/src/ledger.rs: the else branch runs
\* when the account is missing and also when it is locked
cli_insert_transaction(self, client_id, transaction_id, amount) ==
    IF client_id \in DOMAIN self.clients /\ ~self.clients[client_id].locked
    THEN LET client == self.clients[client_id]
         IN  [clients |-> [self.clients EXCEPT ![client_id] =
                  [client EXCEPT !.available = @ + amount, !.total = @ + amount]],
              transactions |-> MapInsert(self.transactions, transaction_id, amount)]
    ELSE [clients |-> MapInsert(self.clients, client_id, cli_ClientData_new(amount)),
          transactions |-> MapInsert(self.transactions, transaction_id, amount)]

\* Ledger::hold of src/src/ledger.rs: the tx is read with `get` and stays
\* in the table
cli_hold(self, client_id, transaction_id) ==
    IF transaction_id \in DOMAIN self.transactions
          /\ client_id \in DOMAIN self.clients
    THEN LET client == self.clients[client_id]
             amount == self.transactions[transaction_id]
         IN  [self EXCEPT !.clients[client_id] =
                 [client EXCEPT
                     !.available = @ - amount,
                     !.held = MapInsert(@, transaction_id, amount)]]
    ELSE self

cli_resolve(self, client_id, transaction_id) ==
    IF client_id \in DOMAIN self.clients
          /\ transaction_id \in DOMAIN self.clients[client_id].held
    THEN LET client == self.clients[client_id]
         IN  [self EXCEPT !.clients[client_id] =
                 [client EXCEPT
                     !.available = @ + client.held[transaction_id],
                     !.held = MapRemove(@, transaction_id)]]
    ELSE self

cli_chageback(self, client_id, transaction_id) ==
    IF client_id \in DOMAIN self.clients
          /\ transaction_id \in DOMAIN self.clients[client_id].held
    THEN LET client == self.clients[client_id]
         IN  [self EXCEPT !.clients[client_id] =
                 [client EXCEPT
                     !.total = @ - client.held[transaction_id],
                     !.locked = TRUE,
                     !.held = MapRemove(@, transaction_id)]]
    ELSE self

\* ClientData::new of src/src/bank.rs
Bank_ClientData_new(amount) ==
    [held |-> EmptyMap, available |-> amount, total |-> amount, locked |-> FALSE]

\* Bank::insert_transaction of src/src/bank.rs
Bank_insert_transaction(self, client_id, transaction_id, amount) ==
    IF client_id \in DOMAIN self.clients /\ ~self.clients[client_id].locked
    THEN LET client == self.clients[client_id]
         IN  [clients |-> [self.clients EXCEPT ![client_id] =
                  [client EXCEPT !.available = @ + amount, !.total = @ + amount]],
              transactions |-> MapInsert(self.transactions, transaction_id, amount)]
    ELSE [clients |-> MapInsert(self.clients, client_id, Bank_ClientData_new(amount)),
          transactions |-> MapInsert(self.transactions, transaction_id, amount)]

Bank_hold(self, client_id, transaction_id) ==
    IF transaction_id \in DOMAIN self.transactions
          /\ client_id \in DOMAIN self.clients
    THEN LET client == self.clients[client_id]
             amount == self.transactions[transaction_id]
         IN  [self EXCEPT !.clients[client_id] =
                 [client EXCEPT
                     !.available = @ - amount,
                     !.held = MapInsert(@, transaction_id, amount)]]
    ELSE self

Bank_resolve(self, client_id, transaction_id) ==
    IF client_id \in DOMAIN self.clients
          /\ transaction_id \in DOMAIN self.clients[client_id].held
    THEN LET client == self.clients[client_id]
         IN  [self EXCEPT !.clients[client_id] =
                 [client EXCEPT
                     !.available = @ + client.held[transaction_id],
                     !.held = MapRemove(@, transaction_id)]]
    ELSE self

Bank_chageback(self, client_id, transaction_id) ==
    IF client_id \in DOMAIN self.clients
          /\ transaction_id \in DOMAIN self.clients[client_id].held
    THEN LET client == self.clients[client_id]
         IN  [self EXCEPT !.clients[client_id] =
                 [client EXCEPT
                     !.total = @ - client.held[transaction_id],
                     !.locked = TRUE,
                     !.held = MapRemove(@, transaction_id)]]
    ELSE self

\* number of events of a run of the command-line crate's ledger
MaxCliEvents == 5

\* the two ledgers of the command-line crate
CliPrograms == {"Ledger", "Bank"}

\* one iteration of the loop of consume_csv of the command-line crate
CliApply(ev, next) ==
    /\ steps < MaxCliEvents
    /\ steps' = steps + 1
    /\ last' = ev
    /\ prevClients' = clients
    /\ prevTransactions' = transactions
    /\ clients' = next.clients
    /\ transactions' = next.transactions
    /\ UNCHANGED <<seen, repeated, discarded, accepted, gone, credited,
                   charged, opened, program, argument, call, output, panics,
                   csv>>

CliDeposit ==
    \E id \in ClientIds, tx \in TxIds, amount \in DepositAmounts :
        /\ program \in CliPrograms
        /\ CliApply(Event("deposit", id, tx, amount),
                    IF program = "Bank"
                    THEN Bank_insert_transaction(Ledger, id, tx, amount)
                    ELSE cli_insert_transaction(Ledger, id, tx, amount))

CliWithdrawal ==
    \E id \in ClientIds, tx \in TxIds, amount \in WithdrawalAmounts :
        /\ program \in CliPrograms
        /\ CliApply(Event("withdrawal", id, tx, amount),
                    IF program = "Bank"
                    THEN Bank_insert_transaction(Ledger, id, tx, -amount)
                    ELSE cli_insert_transaction(Ledger, id, tx, -amount))

CliDispute ==
    \E id \in ClientIds, tx \in TxIds :
        /\ program \in CliPrograms
        /\ CliApply(Event("dispute", id, tx, 0),
                    IF program = "Bank" THEN Bank_hold(Ledger, id, tx)
                    ELSE cli_hold(Ledger, id, tx))

CliResolve ==
    \E id \in ClientIds, tx \in TxIds :
        /\ program \in CliPrograms
        /\ CliApply(Event("resolve", id, tx, 0),
                    IF program = "Bank" THEN Bank_resolve(Ledger, id, tx)
                    ELSE cli_resolve(Ledger, id, tx))

CliChargeback ==
    \E id \in ClientIds, tx \in TxIds :
        /\ program \in CliPrograms
        /\ CliApply(Event("chargeback", id, tx, 0),
                    IF program = "Bank" THEN Bank_chageback(Ledger, id, tx)
                    ELSE cli_chageback(Ledger, id, tx))

\* Ledger::default() or Bank::default(), before the first event
InitCli ==
    /\ program \in CliPrograms
    /\ clients = EmptyMap
    /\ transactions = EmptyMap
    /\ last = NoEvent
    /\ prevClients = EmptyMap
    /\ prevTransactions = EmptyMap
    /\ seen = {}
    /\ repeated = {}
    /\ discarded = {}
    /\ accepted = EmptyMap
    /\ gone = {}
    /\ credited = [c \in ClientIds |-> 0]
    /\ charged = [c \in ClientIds |-> 0]
    /\ opened = [c \in ClientIds |-> NoDispute]
    /\ steps = 0
    /\ CsvIdle
    /\ argument = NoInput
    /\ call = "none"
    /\ output = NoOutput
    /\ panics = FALSE

NextCli ==
    CliDeposit \/ CliWithdrawal \/ CliDispute \/ CliResolve \/ CliChargeback

SpecCli == InitCli /\ [][NextCli]_vars

\* ----------------------------------------------------------------- C36
\* C36: in the command-line crate's Ledger and Bank, a deposit or
\* withdrawal naming an existing locked account leaves the account locked
\* with its available, held table and total unchanged, and does not insert
\* the tx id into the table of transactions.
C36_CliLockedDiscards ==
    (/\ LastIsMoney
     /\ LastHadAccount
     /\ prevClients[last.client].locked) =>
        /\ clients[last.client] = prevClients[last.client]
        /\ transactions = prevTransactions

====
